---- MODULE Spec2Model ----
(***************************************************************************)
(* Model of the spreadsheet-to-architecture wizard of src/App.tsx:         *)
(* the upload and the structure analysis (handleFileUpload), row           *)
(* extraction (parseDataFromStructure), the structure panel, the           *)
(* architecture-split call, the model editor and the transformation        *)
(* (executeTransformation).                                                *)
(*                                                                         *)
(* JavaScript values are modelled as tagged records [t, v] whose payload v *)
(* is the value's text, so that values of different types stay distinct    *)
(* ("0" the string and 0 the number).  JavaScript objects are modelled as  *)
(* sequences of <<key, value>> pairs in property order.  The lexer reads   *)
(* ASCII only, so the primary-key marker of App.tsx:371 is written "[PK]"   *)
(* and the reserved endpoint names of App.tsx:406 are written "SRC" and    *)
(* "TGT".                                                                  *)
(***************************************************************************)
EXTENDS Integers, Sequences, FiniteSets, TLC

VARIABLES
    step,           \* wizard step, 1..4                      (App.tsx:30)
    wb,             \* the raw workbook, or Null              (App.tsx:31)
    fileStructure,  \* the structural descriptor, or Null     (App.tsx:32)
    isEditingStructure, \* the structure panel is in edit mode (App.tsx:33)
    fileData,       \* the committed table, or Null           (App.tsx:36)
    isAnalyzing,    \* an architecture split is running       (App.tsx:40)
    isStructureAnalyzing, \* a structure analysis is running  (App.tsx:41)
    archModel,      \* the editable model                     (App.tsx:45)
    processedFiles, \* the produced output                    (App.tsx:48)
    d,              \* result of the last parseDataFromStructure() call of
                    \* the confirm handler (App.tsx:650), "none" before it
    splitCall,      \* the analyzeArchitectureSplit call awaited at
                    \* App.tsx:158 (the headers it was given), or Null
    uploads,        \* the files selected whose FileReader has not fired
                    \* onload yet (App.tsx:63-97) or whose
                    \* analyzeFileStructure call is awaited (App.tsx:81):
                    \* a set of records [file, stage, n], n of them pending
    lastOp,         \* the handler that ran last and its arguments (for
                    \* executeTransformation: whether an output existed)
    nEdits          \* number of edits made in the model editors

vars == <<step, wb, fileStructure, isEditingStructure, fileData, isAnalyzing,
          isStructureAnalyzing, archModel, processedFiles, d, splitCall, uploads,
          lastOp, nEdits>>

(***************************************************************************)
(* Bounds of the model.                                                    *)
(***************************************************************************)
MaxRows == 3        \* physical rows of a sheet
MaxCols == 2        \* width of a sheet
MaxDataRows == 2    \* data rows of the table that is transformed
MaxMapLen == 2      \* entries of one attributeMapping
MaxRunRows == 3     \* data rows of the table of a repeated run
MaxEdits == 2       \* edits made in the model editors

(***************************************************************************)
(* JavaScript values.                                                      *)
(***************************************************************************)
Null == [t |-> "null", v |-> ""]
Undefined == [t |-> "undefined", v |-> ""]
Str(s) == [t |-> "string", v |-> s]
Num(s) == [t |-> "number", v |-> s]
Bool(s) == [t |-> "boolean", v |-> s]

\* ToBoolean: what `x ? .. : ..`, `!x`, `a && b` and filter(x => x) test.
Truthy(x) ==
    CASE x.t = "string" -> x.v # ""
      [] x.t = "number" -> x.v \notin {"0", "-0", "NaN"}
      [] x.t = "boolean" -> x.v = "true"
      [] OTHER -> FALSE

\* String(x)
ToStr(x) ==
    CASE x.t = "string" -> x.v
      [] x.t = "number" -> x.v
      [] x.t = "boolean" -> x.v
      [] x.t = "null" -> "null"
      [] OTHER -> "undefined"

RECURSIVE TrimStart(_)
TrimStart(s) ==
    IF Len(s) > 0 /\ SubSeq(s, 1, 1) = " " THEN TrimStart(SubSeq(s, 2, Len(s))) ELSE s

RECURSIVE TrimEnd(_)
TrimEnd(s) ==
    IF Len(s) > 0 /\ SubSeq(s, Len(s), Len(s)) = " "
    THEN TrimEnd(SubSeq(s, 1, Len(s) - 1)) ELSE s

\* String.prototype.trim
Trim(s) == TrimEnd(TrimStart(s))

(***************************************************************************)
(* JavaScript objects: sequences of <<key, value>> in property order.      *)
(***************************************************************************)
\* The keys of the model's alphabet that are array indices ("integer-like"):
\* own property order lists them first, in ascending numeric order.
IndexKeys == <<"0", "7">>

IsIndexKey(k) == \E i \in DOMAIN IndexKeys : IndexKeys[i] = k

IndexOf(k) == CHOOSE i \in DOMAIN IndexKeys : IndexKeys[i] = k

ObjHas(o, k) == \E i \in DOMAIN o : o[i][1] = k

\* o[k] for a key that is present
ObjAt(o, k) == o[CHOOSE i \in DOMAIN o : o[i][1] = k][2]

\* o[k], undefined when absent
ObjGet(o, k) == IF ObjHas(o, k) THEN ObjAt(o, k) ELSE Undefined

\* How many entries of o precede a new key k in property order.
ObjRank(o, k) ==
    IF IsIndexKey(k)
    THEN Cardinality({i \in DOMAIN o : IsIndexKey(o[i][1]) /\ IndexOf(o[i][1]) < IndexOf(k)})
    ELSE Len(o)

\* o[k] = v
ObjSet(o, k, v) ==
    IF ObjHas(o, k)
    THEN [i \in DOMAIN o |-> IF o[i][1] = k THEN <<k, v>> ELSE o[i]]
    ELSE LET r == ObjRank(o, k)
         IN SubSeq(o, 1, r) \o <<(<<k, v>>)>> \o SubSeq(o, r + 1, Len(o))

\* delete o[k]
ObjDelete(o, k) == SelectSeq(o, LAMBDA e : e[1] # k)

(***************************************************************************)
(* Arrays.                                                                 *)
(***************************************************************************)
Min(a, b) == IF a < b THEN a ELSE b
Max(a, b) == IF a > b THEN a ELSE b

\* Array.prototype.slice(start, end) with 0-based integer arguments.
SliceFrom(len, start) == IF start < 0 THEN Max(len + start, 0) ELSE Min(start, len)

Slice(arr, start, end) ==
    LET k == SliceFrom(Len(arr), start)
        e == SliceFrom(Len(arr), end)
    IN SubSeq(arr, k + 1, e)

(***************************************************************************)
(* The workbook and the structural descriptor.                             *)
(***************************************************************************)
NotCalled == [t |-> "none", v |-> ""]

\* dataEndRow: 'auto' or a 1-based row number
Auto == Str("auto")
RowNum(n) == [t |-> "number", n |-> n]

\* XLSX.utils.sheet_to_json(ws, {header: 1, defval: ''}): the sheet as an
\* array of row arrays; the workbook holds each sheet in that form.
SheetToJson(ws) == ws

\* row[i] for a 0-based index i, undefined past the end of the row
At(row, i) == IF i >= 0 /\ i < Len(row) THEN row[i + 1] ELSE Undefined

\* allRows[headerRowIdx].map(h => String(h).trim()).filter(h => h)
HeadersOf(row) ==
    SelectSeq([i \in DOMAIN row |-> Trim(ToStr(row[i]))], LAMBDA h : h # "")

\* headers.forEach((h, i) => { obj[h] = row[i] }), the first n headers done
RECURSIVE MapRow(_, _, _)
MapRow(headers, row, n) ==
    IF n = 0 THEN <<>>
    ELSE ObjSet(MapRow(headers, row, n - 1), headers[n], At(row, n - 1))

\* the bound taken against the 1-based row number
HeaderRowMissingOneBased(allRows, fs) == Len(allRows) <= fs.headerRow

\* if (allRows.length <= headerRowIdx) return null, headerRowIdx = headerRow - 1
HeaderRowMissing(allRows, fs) == Len(allRows) <= fs.headerRow - 1

\* the end row converted to a 0-based index before it is used as slice end
DataRowsEndExclusive(allRows, fs) ==
    LET startRowIdx == fs.dataStartRow - 1
    IN IF fs.dataEndRow = Auto
       THEN Slice(allRows, startRowIdx, Len(allRows))
       ELSE Slice(allRows, startRowIdx, fs.dataEndRow.n - 1)

\* allRows.slice(startRowIdx, endRow), endRow undefined for 'auto'
DataRows(allRows, fs) ==
    LET startRowIdx == fs.dataStartRow - 1
    IN IF fs.dataEndRow = Auto
       THEN Slice(allRows, startRowIdx, Len(allRows))
       ELSE Slice(allRows, startRowIdx, fs.dataEndRow.n)

\* parseDataFromStructure
ParseDataFromStructure(w, fs) ==
    IF w = Null \/ fs = Null THEN Null
    ELSE IF fs.sheetName \notin DOMAIN w.Sheets THEN Null
    ELSE
      LET allRows == SheetToJson(w.Sheets[fs.sheetName])
      IN IF HeaderRowMissing(allRows, fs) THEN Null
         ELSE
           LET headers == HeadersOf(allRows[fs.headerRow])
               dataRows == DataRows(allRows, fs)
               mappedData == [k \in DOMAIN dataRows |->
                                 MapRow(headers, dataRows[k], Len(headers))]
           IN [name |-> fs.sheetName, headers |-> headers, data |-> mappedData]

(***************************************************************************)
(* Sheets and descriptors the extraction is checked on.                    *)
(***************************************************************************)
SheetName == "Sheet1"
SheetNameChoices == {SheetName, "Sheet2"}

\* cells a header row is made of: blank, plain, padded, numeric
HeaderCells == {Str(""), Str("A"), Str(" A"), Num("7")}

\* a data cell, distinct for every position of the sheet
DataCell(r, c) == Str("r" \o ToString(r) \o "c" \o ToString(c))

\* The sheet of n rows and width w whose row h is hdr.
SheetOf(n, w, h, hdr) ==
    [r \in 1..n |-> IF r = h THEN hdr ELSE [c \in 1..w |-> DataCell(r, c)]]

Workbook(rows) == [SheetNames |-> <<SheetName>>, Sheets |-> [s \in {SheetName} |-> rows]]

Range(f) == {f[i] : i \in DOMAIN f}

EmptyModel == [elements |-> <<>>, relationships |-> <<>>]

\* no handler has run yet
NoOp == [op |-> "none"]

\* nothing is being edited or awaited
Idle ==
    /\ isEditingStructure = FALSE
    /\ isAnalyzing = FALSE
    /\ isStructureAnalyzing = FALSE
    /\ splitCall = Null
    /\ uploads = {}
    /\ lastOp = NoOp
    /\ nEdits = 0

InitExtract ==
    /\ step = 1
    /\ \E n \in 0..MaxRows, w \in 1..MaxCols, h \in 1..(MaxRows + 1) :
         \E hdr \in [1..w -> HeaderCells] :
            wb = Workbook(SheetOf(n, w, h, hdr))
    /\ \E sn \in SheetNameChoices, h \in 1..(MaxRows + 1), s \in 1..(MaxRows + 1),
          e \in {Auto} \cup {RowNum(k) : k \in 1..(MaxRows + 1)} :
         fileStructure = [sheetName |-> sn, headerRow |-> h,
                          dataStartRow |-> s, dataEndRow |-> e,
                          warnings |-> <<>>, explanation |-> ""]
    /\ fileData = Null
    /\ archModel = EmptyModel
    /\ processedFiles = <<>>
    /\ d = NotCalled
    /\ Idle

\* The structure confirm button (App.tsx:649-657), shown in the structure
\* panel (App.tsx:505) when it is not in edit mode (App.tsx:632)
ConfirmStructure ==
    /\ step = 1
    /\ wb # Null /\ fileStructure # Null /\ ~isStructureAnalyzing
    /\ ~isEditingStructure
    /\ d' = ParseDataFromStructure(wb, fileStructure)
    /\ fileData' = IF d' # Null THEN d' ELSE fileData
    /\ lastOp' = [op |-> "confirmStructure"]
    /\ UNCHANGED <<step, wb, fileStructure, isEditingStructure, isAnalyzing,
                   archModel, processedFiles, splitCall, nEdits,
                   isStructureAnalyzing, uploads>>

NextExtract == ConfirmStructure

SpecExtract == InitExtract /\ [][NextExtract]_vars

(***************************************************************************)
(* The transformation (executeTransformation).                             *)
(***************************************************************************)
PkMarker == "[PK]"
SourceEndpoint == "SRC"
TargetEndpoint == "TGT"
DefSheetName == "Defs"
OutputFileName == "out.xlsx"

\* a value's text without the quotes that tell a string from a number
JsonValueUnquoted(x) == IF x.t = "null" THEN "null" ELSE x.v

\* JSON.stringify of a cell value (strings of the model need no escaping)
JsonValue(x) ==
    CASE x.t = "string" -> "\"" \o x.v \o "\""
      [] x.t = "null" -> "null"
      [] OTHER -> x.v

\* JSON.stringify(item): the properties in order, undefined ones left out
RECURSIVE JsonProps(_)
JsonProps(o) ==
    IF o = <<>> THEN ""
    ELSE LET rest == JsonProps(Tail(o))
             e == Head(o)
         IN IF e[2] = Undefined THEN rest
            ELSE "\"" \o e[1] \o "\":" \o JsonValue(e[2])
                 \o (IF rest = "" THEN "" ELSE "," \o rest)

JsonStringify(o) == "{" \o JsonProps(o) \o "}"

\* a map whose set() moves a present key to the end
MapSetMoveToEnd(m, k, v) ==
    Append(SelectSeq(m, LAMBDA e : e[1] # k), <<k, v>>)

\* Map.prototype.set: a present key keeps its place and takes the new value
MapSet(m, k, v) ==
    IF ObjHas(m, k)
    THEN [i \in DOMAIN m |-> IF m[i][1] = k THEN <<k, v>> ELSE m[i]]
    ELSE Append(m, <<k, v>>)

\* new Map(entries), the first n entries set
RECURSIVE NewMap(_, _)
NewMap(entries, n) ==
    IF n = 0 THEN <<>>
    ELSE MapSet(NewMap(entries, n - 1), entries[n][1], entries[n][2])

\* Array.from(map.values())
MapValues(m) == [i \in DOMAIN m |-> m[i][2]]

\* defData: one row per mapping entry per element
RECURSIVE FlatMap(_)
FlatMap(ss) == IF ss = <<>> THEN <<>> ELSE Head(ss) \o FlatMap(Tail(ss))

\* definition rows whose key flag is taken from the output name
DefRowsFlagByOutputName(elem) ==
    [i \in DOMAIN elem.attributeMapping |->
        [elementName |-> elem.name,
         attrName |-> elem.attributeMapping[i][2],
         isPk |-> IF elem.attributeMapping[i][2] = elem.primaryKey THEN "Y" ELSE "N"]]

DefRows(elem) ==
    [i \in DOMAIN elem.attributeMapping |->
        [elementName |-> elem.name,
         attrName |-> elem.attributeMapping[i][2],
         isPk |-> IF elem.attributeMapping[i][1] = elem.primaryKey THEN "Y" ELSE "N"]]

DefData(model) == FlatMap([i \in DOMAIN model.elements |-> DefRows(model.elements[i])])

\* header under which an element instance stores the value of srcCol
HeaderName(elem, srcCol, targetAttr) ==
    IF srcCol = elem.primaryKey THEN targetAttr \o PkMarker ELSE targetAttr

\* the instance built from one table row, the first n mapping entries done
RECURSIVE ElementInstance(_, _, _)
ElementInstance(elem, row, n) ==
    IF n = 0 THEN <<>>
    ELSE LET e == elem.attributeMapping[n]
         IN ObjSet(ElementInstance(elem, row, n - 1),
                   HeaderName(elem, e[1], e[2]), ObjGet(row, e[1]))

ElementInstances(elem, table) ==
    [k \in DOMAIN table.data |->
        ElementInstance(elem, table.data[k], Len(elem.attributeMapping))]

\* pkTargetAttr ? `${pkTargetAttr}[PK]` : ''
PkHeaderName(elem) ==
    IF ObjHas(elem.attributeMapping, elem.primaryKey)
       /\ ObjAt(elem.attributeMapping, elem.primaryKey) # ""
    THEN ObjAt(elem.attributeMapping, elem.primaryKey) \o PkMarker
    ELSE ""

\* instances.filter(i => !pkHeaderName || i[pkHeaderName])
KeepInstance(pkHeaderName, inst) ==
    pkHeaderName = "" \/ Truthy(ObjGet(inst, pkHeaderName))

ValidInstances(elem, table) ==
    SelectSeq(ElementInstances(elem, table),
              LAMBDA inst : KeepInstance(PkHeaderName(elem), inst))

\* pkHeaderName && item[pkHeaderName] ? item[pkHeaderName] : JSON.stringify(item)
DedupKey(pkHeaderName, item) ==
    IF pkHeaderName # "" /\ Truthy(ObjGet(item, pkHeaderName))
    THEN ObjGet(item, pkHeaderName)
    ELSE Str(JsonStringify(item))

UniqueInstances(elem, table) ==
    LET valid == ValidInstances(elem, table)
        entries == [k \in DOMAIN valid |-> <<DedupKey(PkHeaderName(elem), valid[k]), valid[k]>>]
    IN MapValues(NewMap(entries, Len(entries)))

\* the instance of a relationship built from one table row
RECURSIVE RelInstance(_, _, _)
RelInstance(rel, row, n) ==
    IF n = 0 THEN <<>>
    ELSE LET e == rel.attributeMapping[n]
         IN ObjSet(RelInstance(rel, row, n - 1), e[2], ObjGet(row, e[1]))

\* a filter that is content with either endpoint
KeepRelInstanceEither(inst) ==
    Truthy(ObjGet(inst, SourceEndpoint)) \/ Truthy(ObjGet(inst, TargetEndpoint))

\* .filter(inst => inst[SRC] && inst[TGT])
KeepRelInstance(inst) ==
    Truthy(ObjGet(inst, SourceEndpoint)) /\ Truthy(ObjGet(inst, TargetEndpoint))

RelInstances(rel, table) ==
    SelectSeq([k \in DOMAIN table.data |->
                  RelInstance(rel, table.data[k], Len(rel.attributeMapping))],
              KeepRelInstance)

\* XLSX.utils.book_append_sheet(wb, XLSX.utils.json_to_sheet(rows), name);
\* the models checked here give their sheets distinct, non-blank names.
BookAppendSheet(book, rows, name) == Append(book, [name |-> name, rows |-> rows])

\* if (rows.length > 0) book_append_sheet(..)
AppendIfAny(book, rows, name) ==
    IF Len(rows) > 0 THEN BookAppendSheet(book, rows, name) ELSE book

RECURSIVE ElementSheets(_, _, _, _)
ElementSheets(book, elements, table, n) ==
    IF n = 0 THEN book
    ELSE AppendIfAny(ElementSheets(book, elements, table, n - 1),
                     UniqueInstances(elements[n], table), elements[n].name)

RECURSIVE RelSheets(_, _, _, _)
RelSheets(book, rels, table, n) ==
    IF n = 0 THEN book
    ELSE AppendIfAny(RelSheets(book, rels, table, n - 1),
                     RelInstances(rels[n], table), rels[n].name)

\* a workbook that leaves out the relationships whose endpoints name no
\* element of the model
OutputBookResolvedOnly(table, model) ==
    LET b1 == AppendIfAny(<<>>, DefData(model), DefSheetName)
        b2 == ElementSheets(b1, model.elements, table, Len(model.elements))
        named(n) == \E i \in DOMAIN model.elements : model.elements[i].name = n
        rels == SelectSeq(model.relationships,
                          LAMBDA r : named(r.sourceElement) /\ named(r.targetElement))
    IN RelSheets(b2, rels, table, Len(rels))

\* the workbook executeTransformation writes
OutputBook(table, model) ==
    LET b1 == AppendIfAny(<<>>, DefData(model), DefSheetName)
        b2 == ElementSheets(b1, model.elements, table, Len(model.elements))
    IN RelSheets(b2, model.relationships, table, Len(model.relationships))

\* defData.slice(0, 10)
PreviewRows == 10

\* a run that also empties the mappings of the model it has read
ExecuteTransformationConsuming ==
    /\ step = 3
    /\ fileData # Null
    /\ processedFiles' = <<[name |-> OutputFileName,
                            blob |-> OutputBook(fileData, archModel),
                            preview |-> Slice(DefData(archModel), 0, PreviewRows)]>>
    /\ archModel' = [archModel EXCEPT !.elements =
                        [i \in DOMAIN archModel.elements |->
                            [archModel.elements[i] EXCEPT !.attributeMapping = <<>>]]]
    /\ step' = 4
    /\ lastOp' = [op |-> "executeTransformation", again |-> processedFiles # <<>>]
    /\ UNCHANGED <<wb, fileStructure, isEditingStructure, fileData, isAnalyzing,
                   d, splitCall, nEdits,
                   isStructureAnalyzing, uploads>>

ExecuteTransformation ==
    /\ step = 3
    /\ fileData # Null
    /\ processedFiles' = <<[name |-> OutputFileName,
                            blob |-> OutputBook(fileData, archModel),
                            preview |-> Slice(DefData(archModel), 0, PreviewRows)]>>
    /\ step' = 4
    /\ lastOp' = [op |-> "executeTransformation", again |-> processedFiles # <<>>]
    /\ UNCHANGED <<wb, fileStructure, isEditingStructure, fileData, isAnalyzing,
                   archModel, d, splitCall, nEdits,
                   isStructureAnalyzing, uploads>>

(***************************************************************************)
(* Tables and models the transformation is checked on.                     *)
(***************************************************************************)
TableHeaderRow == <<Str("A"), Str("B")>>

\* cell values of the data rows: empty, a string, a number that is 0
CellValues == {Str(""), Str("0"), Num("0")}

\* source columns a mapping names: the two headers and an unknown column
MapKeys == {"A", "B", "Z"}
ElementAttrNames == {"", "X"}
RelAttrNames == {"", SourceEndpoint, TargetEndpoint}

Injective(f) == \A i, j \in DOMAIN f : i # j => f[i] # f[j]

Mappings(names) ==
    UNION {{[i \in 1..n |-> <<ks[i], vs[i]>>] :
               ks \in {f \in [1..n -> MapKeys] : Injective(f)}, vs \in [1..n -> names]} :
           n \in 0..Min(MaxMapLen, Cardinality(MapKeys))}

ElementOf(pk, m) ==
    [id |-> "e1", name |-> "E", primaryKey |-> pk, attributeMapping |-> m]

RelOf(m) ==
    [id |-> "r1", name |-> "R", sourceElement |-> "E", targetElement |-> "E",
     attributeMapping |-> m]

DefaultStructure ==
    [sheetName |-> SheetName, headerRow |-> 1, dataStartRow |-> 2, dataEndRow |-> Auto,
     warnings |-> <<>>, explanation |-> ""]

InitTransform ==
    /\ step = 3
    /\ \E n \in 0..MaxDataRows : \E rows \in [1..n -> [1..2 -> CellValues]] :
          wb = Workbook(<<TableHeaderRow>> \o rows)
    /\ fileStructure = DefaultStructure
    /\ d = ParseDataFromStructure(wb, fileStructure)
    /\ fileData = d
    /\ \/ \E pk \in {"A", "B"}, m \in Mappings(ElementAttrNames) :
             archModel = [elements |-> <<ElementOf(pk, m)>>, relationships |-> <<>>]
       \/ \E m \in Mappings(RelAttrNames) :
             archModel = [elements |-> <<>>, relationships |-> <<RelOf(m)>>]
    /\ processedFiles = <<>>
    /\ Idle

NextTransform == ExecuteTransformation

SpecTransform == InitTransform /\ [][NextTransform]_vars

(***************************************************************************)
(* The wizard: the structure panel of step 1, the architecture-split call  *)
(* and the navigation between the steps.                                   *)
(***************************************************************************)
\* values typed into the row inputs of the structure editor
StructureRowChoices == {1, 2}

\* values typed into the end-row input of the structure editor
StructureEndChoices == {Auto, RowNum(2)}

\* identifiers generateId() can return (App.tsx:26)
IdPool == {"id1", "id2"}

\* the structure panel is rendered (App.tsx:476, 505)
StructurePanelShown ==
    step = 1 /\ wb # Null /\ fileStructure # Null /\ ~isStructureAnalyzing

\* The edit-mode toggles of the structure panel (App.tsx:624-639)
ToggleStructureEditing ==
    /\ StructurePanelShown
    /\ isEditingStructure' = ~isEditingStructure
    /\ lastOp' = [op |-> "setIsEditingStructure"]
    /\ UNCHANGED <<step, wb, fileStructure, fileData, isAnalyzing, archModel,
                   processedFiles, d, splitCall, nEdits,
                   isStructureAnalyzing, uploads>>

\* The inputs of the structure editor (App.tsx:559-598)
EditStructure ==
    /\ StructurePanelShown
    /\ isEditingStructure
    /\ \/ \E n \in {wb.SheetNames[i] : i \in DOMAIN wb.SheetNames} :
            fileStructure' = [fileStructure EXCEPT !.sheetName = n]
       \/ \E n \in StructureRowChoices :
            fileStructure' = [fileStructure EXCEPT !.headerRow = n]
       \/ \E n \in StructureRowChoices :
            fileStructure' = [fileStructure EXCEPT !.dataStartRow = n]
       \/ \E e \in StructureEndChoices :
            fileStructure' = [fileStructure EXCEPT !.dataEndRow = e]
    /\ lastOp' = [op |-> "setFileStructure"]
    /\ UNCHANGED <<step, wb, isEditingStructure, fileData, isAnalyzing, archModel,
                   processedFiles, d, splitCall, nEdits,
                   isStructureAnalyzing, uploads>>

\* handleAnalyzeArchitecture up to its await (App.tsx:148-158); its button
\* is shown once a table is committed and disabled while a split runs
\* (App.tsx:668, 680-681)
HandleAnalyzeArchitecture ==
    /\ StructurePanelShown
    /\ fileData # Null
    /\ ~isAnalyzing
    /\ LET data == ParseDataFromStructure(wb, fileStructure)
       IN  IF data = Null \/ Len(data.headers) = 0
           THEN UNCHANGED <<fileData, isAnalyzing, splitCall>>
           ELSE /\ fileData' = data
                /\ isAnalyzing' = TRUE
                /\ splitCall' = [headers |-> data.headers]
    /\ lastOp' = [op |-> "handleAnalyzeArchitecture"]
    /\ UNCHANGED <<step, wb, fileStructure, isEditingStructure, archModel,
                   processedFiles, d, nEdits,
                   isStructureAnalyzing, uploads>>

\* an entity and a relationship as analyzeArchitectureSplit returns them
\* (geminiService.ts:131-153)
PlanElement ==
    [name |-> "E", primaryKey |-> "A",
     attributeMapping |-> << <<"A", "X">>, <<"B", "Y">> >>]

PlanRelationship ==
    [name |-> "R", sourceElement |-> "E", targetElement |-> "E",
     attributeMapping |-> << <<"A", SourceEndpoint>>, <<"B", TargetEndpoint>> >>]

\* results of analyzeArchitectureSplit (geminiService.ts:155-159)
SplitPlans ==
    {[elements |-> <<>>, relationships |-> <<>>, explanation |-> Undefined],
     [elements |-> <<PlanElement>>, relationships |-> <<PlanRelationship>>,
      explanation |-> Str("why")]}

\* the plan with an id on every definition (App.tsx:161-168)
Hydrate(plan, eids, rids) ==
    [elements |-> [i \in DOMAIN plan.elements |->
                      [id |-> eids[i], name |-> plan.elements[i].name,
                       primaryKey |-> plan.elements[i].primaryKey,
                       attributeMapping |-> plan.elements[i].attributeMapping]],
     relationships |-> [i \in DOMAIN plan.relationships |->
                      [id |-> rids[i], name |-> plan.relationships[i].name,
                       sourceElement |-> plan.relationships[i].sourceElement,
                       targetElement |-> plan.relationships[i].targetElement,
                       attributeMapping |-> plan.relationships[i].attributeMapping]],
     explanation |-> plan.explanation]

\* the awaited split resolves (App.tsx:158-169, 173-175)
SplitResolve ==
    /\ splitCall # Null
    /\ \E plan \in SplitPlans :
         /\ \E eids \in [DOMAIN plan.elements -> IdPool],
               rids \in [DOMAIN plan.relationships -> IdPool] :
               archModel' = Hydrate(plan, eids, rids)
         /\ lastOp' = [op |-> "splitResolved", plan |-> plan,
                       headers |-> splitCall.headers]
    /\ step' = 2
    /\ isAnalyzing' = FALSE
    /\ splitCall' = Null
    /\ UNCHANGED <<wb, fileStructure, isEditingStructure, fileData,
                   processedFiles, d, nEdits,
                   isStructureAnalyzing, uploads>>

\* the awaited split rejects (App.tsx:170-175)
SplitReject ==
    /\ splitCall # Null
    /\ isAnalyzing' = FALSE
    /\ splitCall' = Null
    /\ lastOp' = [op |-> "splitRejected"]
    /\ UNCHANGED <<step, wb, fileStructure, isEditingStructure, fileData,
                   archModel, processedFiles, d, nEdits,
                   isStructureAnalyzing, uploads>>

\* the back button of the page header (App.tsx:462-468)
PreviousStep ==
    /\ step > 1
    /\ step' = Max(1, step - 1)
    /\ lastOp' = [op |-> "previousStep"]
    /\ UNCHANGED <<wb, fileStructure, isEditingStructure, fileData, isAnalyzing,
                   archModel, processedFiles, d, splitCall, nEdits,
                   isStructureAnalyzing, uploads>>

\* the button that leaves the entity editor (App.tsx:774-780)
ConfirmElements ==
    /\ step = 2
    /\ step' = 3
    /\ lastOp' = [op |-> "confirmElements"]
    /\ UNCHANGED <<wb, fileStructure, isEditingStructure, fileData, isAnalyzing,
                   archModel, processedFiles, d, splitCall, nEdits,
                   isStructureAnalyzing, uploads>>

\* the button that starts over with a new file (App.tsx:943-954)
ProcessNewFile ==
    /\ step = 4
    /\ step' = 1
    /\ wb' = Null
    /\ fileStructure' = Null
    /\ fileData' = Null
    /\ archModel' = EmptyModel
    /\ processedFiles' = <<>>
    /\ lastOp' = [op |-> "processNewFile"]
    /\ UNCHANGED <<isEditingStructure, isAnalyzing, d, splitCall, nEdits,
                   isStructureAnalyzing, uploads>>

\* a sheet whose second row is blank
WizardRows ==
    <<TableHeaderRow, <<Str(""), Str("")>>, <<Str("0"), Num("0")>>>>

\* the wizard after a file was loaded and its structure detected
InitWizard ==
    /\ step = 1
    /\ wb = Workbook(WizardRows)
    /\ fileStructure = DefaultStructure
    /\ fileData = Null
    /\ archModel = EmptyModel
    /\ processedFiles = <<>>
    /\ d = NotCalled
    /\ Idle

NextWizard ==
    \/ ToggleStructureEditing
    \/ EditStructure
    \/ ConfirmStructure
    \/ HandleAnalyzeArchitecture
    \/ SplitResolve
    \/ SplitReject
    \/ PreviousStep
    \/ ConfirmElements
    \/ ExecuteTransformation
    \/ ProcessNewFile

SpecWizard == InitWizard /\ [][NextWizard]_vars

(***************************************************************************)
(* Upload: the file input of step 1, the FileReader and the structure      *)
(* analysis (App.tsx:56-98).                                               *)
(***************************************************************************)
MaxUploads == 2     \* files selected and not yet analysed

\* a workbook of two sheets, the first of them named Sheet2
TwoSheetBook ==
    [SheetNames |-> <<"Sheet2", SheetName>>,
     Sheets |-> [s \in {"Sheet2", SheetName} |-> WizardRows]]

\* a file XLSX.read cannot read
Unreadable == [SheetNames |-> <<>>, unreadable |-> TRUE]

\* the files that can be selected, as the workbooks XLSX.read makes of them
UploadFiles == {Workbook(WizardRows), TwoSheetBook, Unreadable}

\* an array
Arr(a) == [t |-> "array", v |-> a]

\* !x for a field x of the response: undefined, '' and 0 are false, a row
\* number other than 0, a non-empty string and every array are true
Falsy(x) ==
    CASE x.t = "number" -> x.n = 0
      [] x.t = "string" -> x.v = ""
      [] x.t = "array" -> FALSE
      [] OTHER -> TRUE

\* a || b
Or(a, b) == IF Falsy(a) THEN b ELSE a

\* what parseJson makes of a text that does not parse: {}
EmptyResponse ==
    [sheetName |-> Undefined, headerRow |-> Undefined, dataStartRow |-> Undefined,
     dataEndRow |-> Undefined, warnings |-> Undefined, explanation |-> Undefined]

\* The objects analyzeFileStructure resolves with (geminiService.ts:51):
\* the parsed text of the response, {} when the text does not parse; a
\* field that is absent reads as undefined.
StructureResponses ==
    {EmptyResponse} \cup
    [sheetName : {Undefined, Str(""), Str(SheetName)},
     headerRow : {Undefined, RowNum(0), RowNum(2)},
     dataStartRow : {Undefined, RowNum(3)},
     dataEndRow : {Undefined, RowNum(2)},
     warnings : {Undefined, Arr(<<"w">>)},
     explanation : {Str("why")}]

\* a descriptor that takes 1 as the default of the data start row
StoredStructureStartOne(analysis, workbook) ==
    [sheetName |-> Or(analysis.sheetName, Str(workbook.SheetNames[1])).v,
     headerRow |-> Or(analysis.headerRow, RowNum(1)).n,
     dataStartRow |-> Or(analysis.dataStartRow, RowNum(1)).n,
     dataEndRow |-> Or(analysis.dataEndRow, Auto),
     warnings |-> Or(analysis.warnings, Arr(<<>>)).v,
     explanation |-> Or(analysis.explanation, Str("")).v]

\* the descriptor setFileStructure is given (App.tsx:82-89)
StoredStructure(analysis, workbook) ==
    [sheetName |-> Or(analysis.sheetName, Str(workbook.SheetNames[1])).v,
     headerRow |-> Or(analysis.headerRow, RowNum(1)).n,
     dataStartRow |-> Or(analysis.dataStartRow, RowNum(2)).n,
     dataEndRow |-> Or(analysis.dataEndRow, Auto),
     warnings |-> Or(analysis.warnings, Arr(<<>>)).v,
     explanation |-> Or(analysis.explanation, Str("")).v]

\* the number of pending uploads of a file in a stage, and of all uploads
Pending(ups, file, stage) ==
    IF \E u \in ups : u.file = file /\ u.stage = stage
    THEN (CHOOSE u \in ups : u.file = file /\ u.stage = stage).n
    ELSE 0

RECURSIVE PendingAll(_)
PendingAll(ups) ==
    IF ups = {} THEN 0
    ELSE LET u == CHOOSE x \in ups : TRUE IN u.n + PendingAll(ups \ {u})

\* the pending uploads with k more (or, k negative, fewer) of a file in a stage
Shift(ups, file, stage, k) ==
    LET n == Pending(ups, file, stage) + k
        rest == {u \in ups : ~(u.file = file /\ u.stage = stage)}
    IN IF n = 0 THEN rest ELSE rest \cup {[file |-> file, stage |-> stage, n |-> n]}

\* the file input is rendered (App.tsx:476, 480)
UploadShown == step = 1 /\ wb = Null /\ ~isStructureAnalyzing

\* handleFileUpload for a selected file, up to reader.readAsBinaryString
\* (App.tsx:56-63, 97)
HandleFileUpload ==
    /\ UploadShown
    /\ PendingAll(uploads) < MaxUploads
    /\ \E file \in UploadFiles : uploads' = Shift(uploads, file, "reading", 1)
    /\ wb' = Null
    /\ fileStructure' = Null
    /\ fileData' = Null
    /\ lastOp' = [op |-> "handleFileUpload"]
    /\ UNCHANGED <<step, isEditingStructure, isAnalyzing, isStructureAnalyzing,
                   archModel, processedFiles, d, splitCall, nEdits>>

\* reader.onload up to the await of analyzeFileStructure (App.tsx:64-81)
ReaderOnload ==
    /\ \E u \in uploads :
         /\ u.stage = "reading"
         /\ u.file # Unreadable
         /\ wb' = u.file
         /\ uploads' = Shift(Shift(uploads, u.file, "reading", -1),
                             u.file, "analyzing", 1)
    /\ isStructureAnalyzing' = TRUE
    /\ lastOp' = [op |-> "readerOnload"]
    /\ UNCHANGED <<step, fileStructure, isEditingStructure, fileData, isAnalyzing,
                   archModel, processedFiles, d, splitCall, nEdits>>

\* reader.onload when XLSX.read throws, which is outside the try block
\* (App.tsx:66)
ReaderOnloadThrows ==
    /\ \E u \in uploads :
         /\ u.stage = "reading"
         /\ u.file = Unreadable
         /\ uploads' = Shift(uploads, u.file, "reading", -1)
    /\ lastOp' = [op |-> "readerOnloadThrew"]
    /\ UNCHANGED <<step, wb, fileStructure, isEditingStructure, fileData,
                   isAnalyzing, isStructureAnalyzing, archModel, processedFiles,
                   d, splitCall, nEdits>>

\* the awaited analyzeFileStructure resolves (App.tsx:81-89, 93-95)
StructureResolve ==
    /\ \E u \in uploads :
         /\ u.stage = "analyzing"
         /\ \E analysis \in StructureResponses :
              /\ fileStructure' = StoredStructure(analysis, u.file)
              /\ lastOp' = [op |-> "structureResolved", analysis |-> analysis,
                            workbook |-> u.file]
         /\ uploads' = Shift(uploads, u.file, "analyzing", -1)
    /\ isStructureAnalyzing' = FALSE
    /\ UNCHANGED <<step, wb, isEditingStructure, fileData, isAnalyzing,
                   archModel, processedFiles, d, splitCall, nEdits>>

\* the awaited analyzeFileStructure rejects, or the try block throws
\* (App.tsx:90-95)
StructureReject ==
    /\ \E u \in uploads :
         /\ u.stage = "analyzing"
         /\ uploads' = Shift(uploads, u.file, "analyzing", -1)
         /\ lastOp' = [op |-> "structureRejected", workbook |-> u.file]
    /\ isStructureAnalyzing' = FALSE
    /\ UNCHANGED <<step, wb, fileStructure, isEditingStructure, fileData,
                   isAnalyzing, archModel, processedFiles, d, splitCall, nEdits>>

\* the application as constructed (App.tsx:30-48)
InitUpload ==
    /\ step = 1
    /\ wb = Null
    /\ fileStructure = Null
    /\ fileData = Null
    /\ archModel = EmptyModel
    /\ processedFiles = <<>>
    /\ d = NotCalled
    /\ Idle

NextUpload ==
    \/ HandleFileUpload
    \/ ReaderOnload
    \/ ReaderOnloadThrows
    \/ StructureResolve
    \/ StructureReject
    \/ ConfirmStructure

SpecUpload == InitUpload /\ [][NextUpload]_vars

(***************************************************************************)
(* Repeated runs: models of several definitions over tables of up to       *)
(* MaxRunRows rows, transformed, left with the back button and transformed *)
(* again.                                                                  *)
(***************************************************************************)
\* data rows under the headers A and B
RunRowChoices ==
    {<<Str("a"), Str("c")>>, <<Str("a"), Str("")>>, <<Str("b"), Str("c")>>}

RunElements ==
    {[id |-> "e1", name |-> "E", primaryKey |-> "A",
      attributeMapping |-> << <<"A", "X">>, <<"B", "Y">> >>],
     [id |-> "e2", name |-> "F", primaryKey |-> "B",
      attributeMapping |-> << <<"A", "X">> >>],
     [id |-> "e3", name |-> "G", primaryKey |-> "A",
      attributeMapping |-> <<>>],
     [id |-> "e4", name |-> "H", primaryKey |-> "B",
      attributeMapping |-> << <<"A", "Y">>, <<"B", "X">> >>]}

\* an entity with an output name that is the display header of its primary key
RunMarkedElement ==
    [id |-> "e5", name |-> "K", primaryKey |-> "A",
     attributeMapping |-> << <<"A", "X">>, <<"B", "X" \o PkMarker>> >>]

RunElementLists ==
    {<<>>, <<RunMarkedElement>>}
       \cup {<<e>> : e \in RunElements}
       \cup {p \in RunElements \X RunElements : p[1] # p[2]}

\* relationships whose endpoints name entities of the model or none ("Q")
RunRelationship(m, src, tgt) ==
    [id |-> "r1", name |-> "R", sourceElement |-> src, targetElement |-> tgt,
     attributeMapping |-> m]

RunRelationshipLists ==
    {<<>>,
     <<RunRelationship(<< <<"A", SourceEndpoint>>, <<"B", TargetEndpoint>> >>, "E", "F")>>,
     <<RunRelationship(<< <<"A", SourceEndpoint>>, <<"B", TargetEndpoint>> >>, "Q", "E")>>,
     <<RunRelationship(<< <<"A", SourceEndpoint>> >>, "E", "E")>>}

InitRun ==
    /\ step = 3
    /\ \E n \in 0..MaxRunRows : \E rows \in [1..n -> RunRowChoices] :
          wb = Workbook(<<TableHeaderRow>> \o rows)
    /\ fileStructure = DefaultStructure
    /\ d = ParseDataFromStructure(wb, fileStructure)
    /\ fileData = d
    /\ \E es \in RunElementLists, rs \in RunRelationshipLists :
          archModel = [elements |-> es, relationships |-> rs]
    /\ processedFiles = <<>>
    /\ Idle

NextRun ==
    \/ ExecuteTransformation
    \/ PreviousStep
    \/ ConfirmElements

SpecRun == InitRun /\ [][NextRun]_vars

(***************************************************************************)
(* The model editors of steps 2 and 3 (App.tsx:179-336) and the controls   *)
(* that call them.                                                         *)
(***************************************************************************)
\* fileData?.headers[0] || ''
FirstHeader(table) ==
    IF table # Null /\ Len(table.headers) > 0 THEN table.headers[1] ELSE ""

\* defs.map(x => x.id === id ? { ...x, attributeMapping: ms[x] } : x), ms
\* giving the new mapping of each definition
WithMappings(defs, id, ms) ==
    [i \in DOMAIN defs |->
        IF defs[i].id = id THEN [defs[i] EXCEPT !.attributeMapping = ms[i]]
        ELSE defs[i]]

\* an update that is applied to every definition, whatever its id
WithFieldEvery(defs, id, field, value) ==
    [i \in DOMAIN defs |-> [defs[i] EXCEPT ![field] = value]]

\* defs.map(x => x.id === id ? { ...x, [field]: value } : x)
WithField(defs, id, field, value) ==
    [i \in DOMAIN defs |->
        IF defs[i].id = id THEN [defs[i] EXCEPT ![field] = value] ELSE defs[i]]

\* an added entry that is put under the output name of the first entry
AddedUnderFirstOutputName(m, firstHeader) ==
    IF m = <<>> THEN ObjSet(m, firstHeader, firstHeader)
    ELSE ObjSet(m, m[1][2], firstHeader)

\* { ...e.attributeMapping, [firstHeader]: firstHeader }
Added(m, firstHeader) == ObjSet(m, firstHeader, firstHeader)

\* a renaming that leaves the old entry in place
RenamedKeepingOld(m, oldKey, newKey) == ObjSet(m, newKey, ObjGet(m, oldKey))

\* val = m[oldKey]; delete newMap[oldKey]; newMap[newKey] = val
Renamed(m, oldKey, newKey) ==
    ObjSet(ObjDelete(m, oldKey), newKey, ObjGet(m, oldKey))

UpdateElement(model, id, field, value) ==
    [model EXCEPT !.elements = WithField(model.elements, id, field, value)]

AddMappingToElement(model, table, id) ==
    [model EXCEPT !.elements =
        WithMappings(model.elements, id,
            [i \in DOMAIN model.elements |->
                Added(model.elements[i].attributeMapping, FirstHeader(table))])]

RemoveMappingFromElement(model, id, keyToRemove) ==
    [model EXCEPT !.elements =
        WithMappings(model.elements, id,
            [i \in DOMAIN model.elements |->
                ObjDelete(model.elements[i].attributeMapping, keyToRemove)])]

UpdateElementMappingKey(model, id, oldKey, newKey) ==
    [model EXCEPT !.elements =
        WithMappings(model.elements, id,
            [i \in DOMAIN model.elements |->
                Renamed(model.elements[i].attributeMapping, oldKey, newKey)])]

UpdateElementMappingValue(model, id, key, newValue) ==
    [model EXCEPT !.elements =
        WithMappings(model.elements, id,
            [i \in DOMAIN model.elements |->
                ObjSet(model.elements[i].attributeMapping, key, newValue)])]

UpdateRelationship(model, id, field, value) ==
    [model EXCEPT !.relationships = WithField(model.relationships, id, field, value)]

AddMappingToRel(model, table, id) ==
    [model EXCEPT !.relationships =
        WithMappings(model.relationships, id,
            [i \in DOMAIN model.relationships |->
                Added(model.relationships[i].attributeMapping, FirstHeader(table))])]

RemoveMappingFromRel(model, id, keyToRemove) ==
    [model EXCEPT !.relationships =
        WithMappings(model.relationships, id,
            [i \in DOMAIN model.relationships |->
                ObjDelete(model.relationships[i].attributeMapping, keyToRemove)])]

UpdateRelMappingKey(model, id, oldKey, newKey) ==
    [model EXCEPT !.relationships =
        WithMappings(model.relationships, id,
            [i \in DOMAIN model.relationships |->
                Renamed(model.relationships[i].attributeMapping, oldKey, newKey)])]

UpdateRelMappingValue(model, id, key, newValue) ==
    [model EXCEPT !.relationships =
        WithMappings(model.relationships, id,
            [i \in DOMAIN model.relationships |->
                ObjSet(model.relationships[i].attributeMapping, key, newValue)])]

\* the name of an added element, and of an added relationship
NewElementName == "NewElement"
NewRelationshipName == "NewRelationship"

AddElement(model, table, id) ==
    [model EXCEPT !.elements =
        Append(@, [id |-> id, name |-> NewElementName,
                   primaryKey |-> FirstHeader(table), attributeMapping |-> <<>>])]

RemoveElement(model, id) ==
    [model EXCEPT !.elements = SelectSeq(@, LAMBDA e : e.id # id)]

\* prev.elements[0]?.name || ''
FirstElementName(model) ==
    IF Len(model.elements) > 0 THEN model.elements[1].name ELSE ""

AddRelationship(model, id) ==
    [model EXCEPT !.relationships =
        Append(@, [id |-> id, name |-> NewRelationshipName,
                   sourceElement |-> FirstElementName(model),
                   targetElement |-> FirstElementName(model),
                   attributeMapping |-> << <<SourceEndpoint, "">>,
                                           <<TargetEndpoint, "">> >>])]

RemoveRelationship(model, id) ==
    [model EXCEPT !.relationships = SelectSeq(@, LAMBDA r : r.id # id)]

\* texts typed into the name and output-name inputs
ElementNameInputs == {"F"}
OutputNameInputs == {"Z", SourceEndpoint}

\* the options of the header dropdowns (App.tsx:731, 752, 853)
HeaderOptions == IF fileData = Null THEN {} ELSE Range(fileData.headers)

\* the options of the endpoint dropdowns (App.tsx:820, 831)
ElementNameOptions == {archModel.elements[i].name : i \in DOMAIN archModel.elements}

KeysOf(m) == {m[i][1] : i \in DOMAIN m}

\* an edit is made: the model becomes m, the handler and its arguments are noted
Edit(m, op) ==
    /\ nEdits < MaxEdits
    /\ archModel' = m
    /\ lastOp' = op
    /\ nEdits' = nEdits + 1
    /\ UNCHANGED <<step, wb, fileStructure, isEditingStructure, fileData,
                   isAnalyzing, processedFiles, d, splitCall,
                   isStructureAnalyzing, uploads>>

\* The controls of the entity editor (App.tsx:700-772)
ElementFieldInput ==
    /\ step = 2
    /\ \E i \in DOMAIN archModel.elements : LET e == archModel.elements[i] IN
         \/ \E v \in ElementNameInputs :
              Edit(UpdateElement(archModel, e.id, "name", v),
                   [op |-> "updateElement", id |-> e.id, field |-> "name", value |-> v])
         \/ \E v \in HeaderOptions :
              Edit(UpdateElement(archModel, e.id, "primaryKey", v),
                   [op |-> "updateElement", id |-> e.id, field |-> "primaryKey",
                    value |-> v])

ElementAddMappingButton ==
    /\ step = 2
    /\ \E i \in DOMAIN archModel.elements : LET e == archModel.elements[i] IN
         Edit(AddMappingToElement(archModel, fileData, e.id),
              [op |-> "addMappingToElement", editor |-> "element", id |-> e.id])

ElementMappingKeySelect ==
    /\ step = 2
    /\ \E i \in DOMAIN archModel.elements : LET e == archModel.elements[i] IN
         \E old \in KeysOf(e.attributeMapping), new \in HeaderOptions :
            Edit(UpdateElementMappingKey(archModel, e.id, old, new),
                 [op |-> "updateElementMappingKey", id |-> e.id,
                  oldKey |-> old, newKey |-> new])

ElementMappingValueInput ==
    /\ step = 2
    /\ \E i \in DOMAIN archModel.elements : LET e == archModel.elements[i] IN
         \E k \in KeysOf(e.attributeMapping), v \in OutputNameInputs :
            Edit(UpdateElementMappingValue(archModel, e.id, k, v),
                 [op |-> "updateElementMappingValue", id |-> e.id,
                  key |-> k, value |-> v])

ElementRemoveMappingButton ==
    /\ step = 2
    /\ \E i \in DOMAIN archModel.elements : LET e == archModel.elements[i] IN
         \E k \in KeysOf(e.attributeMapping) :
            Edit(RemoveMappingFromElement(archModel, e.id, k),
                 [op |-> "removeMappingFromElement", id |-> e.id, key |-> k])

AddElementButton ==
    /\ step = 2
    /\ \E id \in IdPool :
         Edit(AddElement(archModel, fileData, id), [op |-> "addElement", id |-> id])

RemoveElementButton ==
    /\ step = 2
    /\ \E i \in DOMAIN archModel.elements : LET e == archModel.elements[i] IN
         Edit(RemoveElement(archModel, e.id), [op |-> "removeElement", id |-> e.id])

\* The controls of the relationship editor (App.tsx:785-870); its add-mapping
\* button calls addMappingToElement with the relationship's id (App.tsx:841)
RelFieldInput ==
    /\ step = 3
    /\ \E i \in DOMAIN archModel.relationships : LET r == archModel.relationships[i] IN
         \/ \E v \in ElementNameInputs :
              Edit(UpdateRelationship(archModel, r.id, "name", v),
                   [op |-> "updateRelationship", id |-> r.id, field |-> "name",
                    value |-> v])
         \/ \E f \in {"sourceElement", "targetElement"}, v \in ElementNameOptions :
              Edit(UpdateRelationship(archModel, r.id, f, v),
                   [op |-> "updateRelationship", id |-> r.id, field |-> f, value |-> v])

RelAddMappingButton ==
    /\ step = 3
    /\ \E i \in DOMAIN archModel.relationships : LET r == archModel.relationships[i] IN
         Edit(AddMappingToElement(archModel, fileData, r.id),
              [op |-> "addMappingToElement", editor |-> "relationship", id |-> r.id])

RelMappingKeySelect ==
    /\ step = 3
    /\ \E i \in DOMAIN archModel.relationships : LET r == archModel.relationships[i] IN
         \E old \in KeysOf(r.attributeMapping), new \in HeaderOptions \cup {""} :
            Edit(UpdateRelMappingKey(archModel, r.id, old, new),
                 [op |-> "updateRelMappingKey", id |-> r.id,
                  oldKey |-> old, newKey |-> new])

RelMappingValueInput ==
    /\ step = 3
    /\ \E i \in DOMAIN archModel.relationships : LET r == archModel.relationships[i] IN
         \E k \in KeysOf(r.attributeMapping), v \in OutputNameInputs :
            Edit(UpdateRelMappingValue(archModel, r.id, k, v),
                 [op |-> "updateRelMappingValue", id |-> r.id, key |-> k, value |-> v])

RelRemoveMappingButton ==
    /\ step = 3
    /\ \E i \in DOMAIN archModel.relationships : LET r == archModel.relationships[i] IN
         \E k \in KeysOf(r.attributeMapping) :
            Edit(RemoveMappingFromRel(archModel, r.id, k),
                 [op |-> "removeMappingFromRel", id |-> r.id, key |-> k])

AddRelationshipButton ==
    /\ step = 3
    /\ \E id \in IdPool :
         Edit(AddRelationship(archModel, id), [op |-> "addRelationship", id |-> id])

RemoveRelationshipButton ==
    /\ step = 3
    /\ \E i \in DOMAIN archModel.relationships : LET r == archModel.relationships[i] IN
         Edit(RemoveRelationship(archModel, r.id),
              [op |-> "removeRelationship", id |-> r.id])

\* a sheet of three columns
EditRows ==
    <<TableHeaderRow \o <<Str("C")>>, <<Str("a"), Str("b"), Str("c")>>>>

\* the editors right after a split has resolved
InitEdit ==
    /\ step = 2
    /\ wb = Workbook(EditRows)
    /\ fileStructure = DefaultStructure
    /\ d = ParseDataFromStructure(wb, fileStructure)
    /\ fileData = d
    /\ \E plan \in SplitPlans :
         \E eids \in [DOMAIN plan.elements -> IdPool],
            rids \in [DOMAIN plan.relationships -> IdPool] :
            archModel = Hydrate(plan, eids, rids)
    /\ processedFiles = <<>>
    /\ Idle

NextEdit ==
    \/ ElementFieldInput
    \/ ElementAddMappingButton
    \/ ElementMappingKeySelect
    \/ ElementMappingValueInput
    \/ ElementRemoveMappingButton
    \/ AddElementButton
    \/ RemoveElementButton
    \/ RelFieldInput
    \/ RelAddMappingButton
    \/ RelMappingKeySelect
    \/ RelMappingValueInput
    \/ RelRemoveMappingButton
    \/ AddRelationshipButton
    \/ RemoveRelationshipButton
    \/ PreviousStep
    \/ ConfirmElements

SpecEdit == InitEdit /\ [][NextEdit]_vars

(***************************************************************************)
(* Vocabulary of the properties.                                           *)
(***************************************************************************)
\* a cell value that is neither missing nor the empty string
NonEmpty(x) == x \notin {Undefined, Null, Str("")}

\* the transformation has run
Ran == processedFiles # <<>>

OutBook == processedFiles[1].blob

HasSheet(name) == \E i \in DOMAIN OutBook : OutBook[i].name = name

\* the rows of the output sheet of that name, none when there is no such sheet
SheetRows(name) ==
    IF HasSheet(name)
    THEN OutBook[CHOOSE i \in DOMAIN OutBook : OutBook[i].name = name].rows
    ELSE <<>>

NoRepeats(f) == \A i, j \in DOMAIN f : i # j => f[i] # f[j]

PkMapped(elem) == ObjHas(elem.attributeMapping, elem.primaryKey)

\* the record built from table row k for an element
BuiltOf(elem, k) == ElementInstance(elem, fileData.data[k], Len(elem.attributeMapping))

\* the primary-key cell of table row k
PkValue(elem, k) == ObjGet(fileData.data[k], elem.primaryKey)

\* table rows that carry the primary-key value of row k
SameKeyRows(elem, k) == {j \in DOMAIN fileData.data : PkValue(elem, j) = PkValue(elem, k)}

LastOf(S) == CHOOSE k \in S : \A j \in S : j <= k

\* the confirm handler has parsed
Parsed == d # NotCalled

AllRows == wb.Sheets[SheetName]

SheetExists == fileStructure.sheetName \in DOMAIN wb.Sheets

(***************************************************************************)
(* Properties of the transformation, under SpecTransform.                  *)
(***************************************************************************)
\* C1: last-write-wins dedup.  For an element whose primary-key column is
\* mapped (here: to a non-empty output name), when two table rows carry the
\* same non-empty primary-key value and build different records, the
\* element's sheet holds exactly one row for that key, and it is the record
\* built from the last such table row.
C1_LastWriteWins ==
    Ran =>
      \A e \in Range(archModel.elements) :
        (PkMapped(e) /\ ObjGet(e.attributeMapping, e.primaryKey) # "") =>
          \A i, j \in DOMAIN fileData.data :
            (i < j /\ PkValue(e, i) = PkValue(e, j) /\ NonEmpty(PkValue(e, i))
               /\ BuiltOf(e, i) # BuiltOf(e, j))
            => LET S == SameKeyRows(e, i)
                   out == SheetRows(e.name)
               IN /\ Cardinality({q \in DOMAIN out :
                                     \E k \in S : out[q] = BuiltOf(e, k)}) = 1
                  /\ \E q \in DOMAIN out : out[q] = BuiltOf(e, LastOf(S))

\* C2: round-trip identity.  When the element maps every header, its
\* primary key is a header, and the table rows carry pairwise distinct,
\* non-empty primary-key values, the element's sheet holds as many rows as
\* the table.
C2_RoundTrip ==
    Ran =>
      \A e \in Range(archModel.elements) :
        (/\ \A h \in Range(fileData.headers) : ObjHas(e.attributeMapping, h)
         /\ e.primaryKey \in Range(fileData.headers)
         /\ \A i \in DOMAIN fileData.data : NonEmpty(PkValue(e, i))
         /\ \A i, j \in DOMAIN fileData.data : i # j => PkValue(e, i) # PkValue(e, j))
        => Len(SheetRows(e.name)) = Len(fileData.data)

\* the record built from table row k for a relationship
RelBuiltOf(rel, k) == RelInstance(rel, fileData.data[k], Len(rel.attributeMapping))

\* C3: relationship filter without dedup.  A relationship's sheet holds, in
\* table order and with repeats, the records built from exactly the table
\* rows whose two endpoint values are both non-empty.
C3_RelationshipFilter ==
    Ran =>
      \A r \in Range(archModel.relationships) :
        SheetRows(r.name) =
          SelectSeq([k \in DOMAIN fileData.data |-> RelBuiltOf(r, k)],
                    LAMBDA inst : /\ NonEmpty(ObjGet(inst, SourceEndpoint))
                                  /\ NonEmpty(ObjGet(inst, TargetEndpoint)))

\* C5: omission of empty outputs.  An element with an empty attributeMapping
\* has no sheet, and no element sheet is without rows or holds an empty
\* record.
C5_EmptyOutputsOmitted ==
    Ran =>
      \A e \in Range(archModel.elements) :
        /\ e.attributeMapping = <<>> => ~HasSheet(e.name)
        /\ HasSheet(e.name) =>
             /\ SheetRows(e.name) # <<>>
             /\ \A q \in DOMAIN SheetRows(e.name) : SheetRows(e.name)[q] # <<>>

\* C6: primary-key-less fallback.  For an element whose primaryKey column
\* has no mapping entry, every built record is in the sheet (no row is
\* filtered out, differing records are all retained) and no record is in it
\* twice (content-identical records collapse to one).
C6_FallbackDedup ==
    Ran =>
      \A e \in Range(archModel.elements) :
        ~PkMapped(e) =>
          /\ Range(SheetRows(e.name)) = {BuiltOf(e, k) : k \in DOMAIN fileData.data}
          /\ NoRepeats(SheetRows(e.name))

\* a table with two content-identical records of a key-less element, collapsed
C6_Witness ==
    /\ Ran
    /\ \E e \in Range(archModel.elements) :
         /\ ~PkMapped(e)
         /\ e.attributeMapping # <<>>
         /\ Len(fileData.data) = 2
         /\ BuiltOf(e, 1) = BuiltOf(e, 2)
         /\ fileData.data[1] # fileData.data[2]
         /\ Len(SheetRows(e.name)) = 1

\* pkDisplayHeader as the claim defines it
PkDisplayHeader(elem) ==
    IF PkMapped(elem)
    THEN ObjAt(elem.attributeMapping, elem.primaryKey) \o PkMarker
    ELSE ""

\* table row k is represented in the element's sheet
Represented(elem, k) ==
    \E q \in DOMAIN SheetRows(elem.name) :
       IF PkDisplayHeader(elem) = ""
       THEN SheetRows(elem.name)[q] = BuiltOf(elem, k)
       ELSE ObjGet(SheetRows(elem.name)[q], PkDisplayHeader(elem))
              = ObjGet(BuiltOf(elem, k), PkDisplayHeader(elem))

\* C7: primary-key filter.  A table row is kept for an element iff
\* pkDisplayHeader is empty or the built record's value at pkDisplayHeader
\* is non-empty (0 and false count as non-empty).
C7_PrimaryKeyFilter ==
    Ran =>
      \A e \in Range(archModel.elements) :
        \A k \in DOMAIN fileData.data :
          Represented(e, k) <=>
            (PkDisplayHeader(e) = "" \/ NonEmpty(ObjGet(BuiltOf(e, k), PkDisplayHeader(e))))

(***************************************************************************)
(* Properties of the extraction, under SpecExtract.                        *)
(***************************************************************************)
\* C4: extraction bounds.  With 1 <= headerRow <= N and
\* 1 <= dataStartRow <= dataEndRow <= N the table holds, in order, the
\* records of the physical rows dataStartRow..dataEndRow; with 'auto', of
\* the rows dataStartRow..N.
C4_ExtractionBounds ==
    (/\ Parsed /\ SheetExists
     /\ fileStructure.headerRow \in 1..Len(AllRows)
     /\ fileStructure.dataStartRow >= 1
     /\ \/ fileStructure.dataEndRow = Auto
        \/ /\ fileStructure.dataStartRow <= fileStructure.dataEndRow.n
           /\ fileStructure.dataEndRow.n <= Len(AllRows))
    => /\ d # Null
       /\ LET s == fileStructure.dataStartRow
              last == IF fileStructure.dataEndRow = Auto
                      THEN Len(AllRows) ELSE fileStructure.dataEndRow.n
              cnt == IF last >= s THEN last - s + 1 ELSE 0
          IN /\ Len(d.data) = cnt
             /\ \A k \in 1..cnt :
                  d.data[k] = MapRow(d.headers, AllRows[s + k - 1], Len(d.headers))

\* a numeric end row before the last physical row, two rows extracted
C4_Witness ==
    /\ Parsed /\ SheetExists /\ d # Null
    /\ fileStructure.headerRow \in 1..Len(AllRows)
    /\ fileStructure.dataEndRow # Auto
    /\ fileStructure.dataStartRow >= 1
    /\ fileStructure.dataEndRow.n = fileStructure.dataStartRow + 1
    /\ fileStructure.dataEndRow.n < Len(AllRows)
    /\ Len(d.data) = 2

\* the header text of physical column c of the header row
HeaderText(c) == Trim(ToStr(AllRows[fileStructure.headerRow][c]))

\* C8: header positions are preserved.  For a header taken from physical
\* column c (a header text no other column of the header row carries),
\* every record's value under it is the data row's cell at column c; stated
\* for data that starts below the header row.
C8_HeaderPositions ==
    (Parsed /\ d # Null /\ fileStructure.dataStartRow > fileStructure.headerRow) =>
      \A k \in DOMAIN d.data :
        \A c \in DOMAIN AllRows[fileStructure.headerRow] :
          (/\ HeaderText(c) # ""
           /\ \A c2 \in DOMAIN AllRows[fileStructure.headerRow] :
                 c2 # c => HeaderText(c2) # HeaderText(c))
          => ObjGet(d.data[k], HeaderText(c))
               = At(DataRows(AllRows, fileStructure)[k], c - 1)

\* C9: the headers of an extracted table are pairwise distinct, non-empty
\* and trimmed.
C9_HeadersUnique ==
    (Parsed /\ d # Null) =>
      /\ \A i \in DOMAIN d.headers : d.headers[i] # "" /\ Trim(d.headers[i]) = d.headers[i]
      /\ NoRepeats(d.headers)

\* C10: StructureOutOfBounds.  For an existing sheet and headerRow >= 1 the
\* extraction returns null iff the sheet has fewer rows than headerRow.
C10_StructureOutOfBounds ==
    (Parsed /\ SheetExists /\ fileStructure.headerRow >= 1)
    => (d = Null <=> Len(AllRows) < fileStructure.headerRow)

\* a header row just past the last physical row of a sheet that has rows
C10_Witness ==
    /\ Parsed /\ SheetExists
    /\ Len(AllRows) >= 1
    /\ fileStructure.headerRow = Len(AllRows) + 1
    /\ d = Null

\* C11: empty extraction result.  When the header row exists and either
\* dataStartRow - 1 is at or beyond the physical row count or the header row
\* yields no non-empty header, the extraction returns a table (not null)
\* whose list of data rows has length 0; stated for data that starts below
\* the header row.
C11_EmptyExtraction ==
    (/\ Parsed /\ SheetExists
     /\ fileStructure.headerRow \in 1..Len(AllRows)
     /\ fileStructure.dataStartRow > fileStructure.headerRow
     /\ \/ fileStructure.dataStartRow - 1 >= Len(AllRows)
        \/ HeadersOf(AllRows[fileStructure.headerRow]) = <<>>)
    => (d # Null /\ Len(d.data) = 0)

(***************************************************************************)
(* Properties of the wizard, under SpecWizard.                             *)
(***************************************************************************)
\* C12: EmptyHeaderSet blocks progression.  In every reachable state with
\* step >= 2 the committed table exists and has at least one header, under
\* any interleaving of structure edits, structure confirmation and a
\* pending architecture-split call.
C12_HeadersBeforeStep2 ==
    step >= 2 => (fileData # Null /\ Len(fileData.headers) >= 1)

(***************************************************************************)
(* Properties of repeated runs, under SpecRun.                             *)
(***************************************************************************)
\* the table rows an element keeps, in table order
KeptRows(elem) ==
    SelectSeq([k \in DOMAIN fileData.data |-> k],
              LAMBDA k : \/ PkDisplayHeader(elem) = ""
                         \/ NonEmpty(ObjGet(BuiltOf(elem, k), PkDisplayHeader(elem))))

\* the dedup key of table row k: the primary-key value, or the whole record
\* when the element has no primary-key header
KeyOf(elem, k) ==
    IF PkDisplayHeader(elem) = "" THEN BuiltOf(elem, k)
    ELSE ObjGet(BuiltOf(elem, k), PkDisplayHeader(elem))

\* the kept rows that are the first of their dedup key, in table order
FirstsOf(elem) ==
    LET kept == KeptRows(elem)
    IN SelectSeq(kept, LAMBDA k : \A j \in Range(kept) :
                                     j < k => KeyOf(elem, j) # KeyOf(elem, k))

\* the last kept row with the dedup key of row k
LastWithKey(elem, k) ==
    LastOf({j \in Range(KeptRows(elem)) : KeyOf(elem, j) = KeyOf(elem, k)})

\* C13: dedup output order.  An element's sheet lists one record per dedup
\* key, in the order in which the keys first appear in the table rows, and
\* each record is the one built from the last row with that key.
C13_DedupOrder ==
    Ran =>
      \A e \in Range(archModel.elements) :
        LET firsts == FirstsOf(e)
            out == SheetRows(e.name)
        IN /\ Len(out) = Len(firsts)
           /\ \A q \in DOMAIN firsts :
                out[q] = BuiltOf(e, LastWithKey(e, firsts[q]))

\* three rows with the keys a, b, a: the sheet lists a (as of row 3), then b
C13_Witness ==
    /\ Ran
    /\ Len(fileData.data) = 3
    /\ \E e \in Range(archModel.elements) :
         /\ PkDisplayHeader(e) # ""
         /\ KeyOf(e, 1) = KeyOf(e, 3)
         /\ KeyOf(e, 1) # KeyOf(e, 2)
         /\ BuiltOf(e, 1) # BuiltOf(e, 3)
         /\ NonEmpty(KeyOf(e, 1)) /\ NonEmpty(KeyOf(e, 2))
         /\ SheetRows(e.name) = <<BuiltOf(e, 3), BuiltOf(e, 2)>>

\* number of mapping entries of the first n elements
RECURSIVE EntriesBefore(_, _)
EntriesBefore(elements, n) ==
    IF n = 0 THEN 0
    ELSE EntriesBefore(elements, n - 1) + Len(elements[n].attributeMapping)

BookRows(book, name) ==
    IF \E i \in DOMAIN book : book[i].name = name
    THEN book[CHOOSE i \in DOMAIN book : book[i].name = name].rows
    ELSE <<>>

\* the model with another element list and other endpoint names
Variant(model, es, src, tgt) ==
    [elements |-> es,
     relationships |-> [i \in DOMAIN model.relationships |->
                          [model.relationships[i] EXCEPT !.sourceElement = src,
                                                         !.targetElement = tgt]]]

\* the name of an element of the model
IsElementName(n) == \E e \in Range(archModel.elements) : e.name = n

\* the relationship names an element that the model does not have
Dangling(rel) == ~IsElementName(rel.sourceElement) \/ ~IsElementName(rel.targetElement)

\* C16: relationship independence from entities.  The sheet of a
\* relationship is the one the same table gives for the model without
\* elements whose relationship names no element at all, and the one it gives
\* with the endpoint names exchanged; so any two models that differ only in
\* the element list or in sourceElement and targetElement give the same
\* sheet (definitions named apart).
C16_RelationshipIndependence ==
    Ran =>
      \A r \in Range(archModel.relationships) :
        /\ BookRows(OutputBook(fileData, Variant(archModel, <<>>, "Q", "Q")), r.name)
             = SheetRows(r.name)
        /\ BookRows(OutputBook(fileData, Variant(archModel, archModel.elements,
                                                 r.targetElement, r.sourceElement)),
                    r.name)
             = SheetRows(r.name)

\* a relationship with a non-empty sheet in a model without its elements
C16_Witness ==
    /\ Ran
    /\ \E r \in Range(archModel.relationships) :
         /\ Len(SheetRows(r.name)) >= 2
         /\ Dangling(r)
         /\ archModel.elements # <<>>

\* C17 as claimed: a relationship with a dangling reference has no sheet.
C17_DanglingIsEmpty ==
    Ran =>
      \A r \in Range(archModel.relationships) : Dangling(r) => ~HasSheet(r.name)

\* C17: a relationship with a dangling reference is transformed like any
\* other: its sheet holds, in table order, the records built from the table
\* rows whose two endpoint values both pass the relationship filter (values
\* that JavaScript takes as true), and it has no sheet only when there is no
\* such row.
C17_DanglingStillTransforms ==
    Ran =>
      \A r \in Range(archModel.relationships) :
        Dangling(r) =>
          LET rows == SelectSeq([k \in DOMAIN fileData.data |-> RelBuiltOf(r, k)],
                         LAMBDA inst : /\ Truthy(ObjGet(inst, SourceEndpoint))
                                       /\ Truthy(ObjGet(inst, TargetEndpoint)))
          IN /\ SheetRows(r.name) = rows
             /\ HasSheet(r.name) <=> rows # <<>>

\* a dangling relationship whose sheet holds the second of two table rows
C17_Witness ==
    /\ Ran
    /\ Len(fileData.data) = 2
    /\ \E r \in Range(archModel.relationships) :
         /\ Dangling(r)
         /\ ~IsElementName(r.sourceElement)
         /\ HasSheet(r.name)
         /\ SheetRows(r.name) = <<RelBuiltOf(r, 2)>>

(***************************************************************************)
(* Properties of the model editors, under SpecEdit.                        *)
(***************************************************************************)
\* the step is an edit made by the handler op
Handled(op) == nEdits' = nEdits + 1 /\ lastOp'.op = op

\* the step is a press of the add-mapping button of the given editor
PressedAddMapping(editor) ==
    Handled("addMappingToElement") /\ lastOp'.editor = editor

\* the source columns of a mapping, in its order
KeySeq(m) == [j \in DOMAIN m |-> m[j][1]]

\* the entries of m and m2 under the keys other than those of S are the same
SameExcept(m, m2, S) ==
    \A k \in (KeysOf(m) \cup KeysOf(m2)) \ S :
       ObjHas(m, k) /\ ObjHas(m2, k) /\ ObjAt(m2, k) = ObjAt(m, k)

\* C18: addMappingEntry on an entity.  After the add-mapping button of an
\* entity, the entity with that id has an entry keyed by the first header of
\* the table whose output name is that header; the entry is new or replaces
\* the one under that key, every other entry is as before, and no source
\* column has two entries.
C18_AddMappingEntry ==
    [][PressedAddMapping("element") =>
         \A i \in DOMAIN archModel.elements :
            archModel.elements[i].id = lastOp'.id =>
              LET m == archModel.elements[i].attributeMapping
                  m2 == archModel'.elements[i].attributeMapping
                  h == fileData.headers[1]
              IN /\ ObjHas(m2, h) /\ ObjAt(m2, h) = h
                 /\ SameExcept(m, m2, {h})
                 /\ Len(m2) = Len(m) + (IF ObjHas(m, h) THEN 0 ELSE 1)
                 /\ NoRepeats(KeySeq(m2))]_vars

\* an entity that had only the entry of B and gained the one of A
C18_Witness ==
    /\ lastOp.op = "addMappingToElement"
    /\ lastOp.editor = "element"
    /\ fileData.headers[1] = "A"
    /\ \E i \in DOMAIN archModel.elements : LET e == archModel.elements[i] IN
         /\ e.id = lastOp.id
         /\ e.attributeMapping = << <<"B", "Y">>, <<"A", "A">> >>

\* C19: the add-mapping button of the relationship editor.  After it, the
\* relationship it was pressed for has the entry (first header -> first
\* header), and no entity has changed; stated for a relationship whose id
\* no entity carries.
C19_RelAddMapping ==
    [][(/\ PressedAddMapping("relationship")
        /\ \A j \in DOMAIN archModel.elements : archModel.elements[j].id # lastOp'.id) =>
         /\ archModel'.elements = archModel.elements
         /\ \A i \in DOMAIN archModel.relationships :
              archModel.relationships[i].id = lastOp'.id =>
                LET m2 == archModel'.relationships[i].attributeMapping
                    h == fileData.headers[1]
                IN ObjHas(m2, h) /\ ObjAt(m2, h) = h]_vars

\* what a renaming from old to new makes of a mapping m that holds old
RenamePost(m, m2, old, new) ==
    ObjHas(m, old) =>
    /\ old # new => ~ObjHas(m2, old)
    /\ ObjHas(m2, new) /\ ObjAt(m2, new) = ObjAt(m, old)
    /\ SameExcept(m, m2, {old, new})
    /\ NoRepeats(KeySeq(m2))

\* C20: renameMappingKey.  After the source-column dropdown of an entry of an
\* entity or a relationship has been changed from oldKey to newKey, a
\* mapping of that id that held oldKey has no entry under oldKey (unless the
\* two are equal), newKey maps
\* to the output name oldKey had, whatever newKey mapped to before is gone
\* and the other entries are as before.
C20_RenameMappingKey ==
    [][/\ Handled("updateElementMappingKey") =>
            \A i \in DOMAIN archModel.elements :
               archModel.elements[i].id = lastOp'.id =>
                 RenamePost(archModel.elements[i].attributeMapping,
                            archModel'.elements[i].attributeMapping,
                            lastOp'.oldKey, lastOp'.newKey)
       /\ Handled("updateRelMappingKey") =>
            \A i \in DOMAIN archModel.relationships :
               archModel.relationships[i].id = lastOp'.id =>
                 RenamePost(archModel.relationships[i].attributeMapping,
                            archModel'.relationships[i].attributeMapping,
                            lastOp'.oldKey, lastOp'.newKey)]_vars

\* the entry of A renamed to B, whose own entry is thereby replaced
C20_Witness ==
    /\ lastOp.op = "updateElementMappingKey"
    /\ lastOp.oldKey = "A" /\ lastOp.newKey = "B"
    /\ nEdits = 1
    /\ \E i \in DOMAIN archModel.elements : LET e == archModel.elements[i] IN
         /\ e.id = lastOp.id
         /\ e.attributeMapping = << <<"B", "X">> >>

\* the definitions of defs whose id is not id, in their order
Others(defs, id) == SelectSeq(defs, LAMBDA x : x.id # id)

\* the step is an edit made by one of the handlers of App.tsx:179-336
Edited == nEdits' = nEdits + 1

StructureFields ==
    {"sheetName", "headerRow", "dataStartRow", "dataEndRow", "warnings"}

\* the descriptor fs holds, for the fields of dflt, the defaults for the
\* workbook w and, for the other fields, what the response a supplies
StoredPer(fs, a, w, dflt) ==
    /\ fs.sheetName = IF "sheetName" \in dflt THEN w.SheetNames[1]
                      ELSE a.sheetName.v
    /\ fs.headerRow = IF "headerRow" \in dflt THEN 1 ELSE a.headerRow.n
    /\ fs.dataStartRow = IF "dataStartRow" \in dflt THEN 2 ELSE a.dataStartRow.n
    /\ fs.dataEndRow = IF "dataEndRow" \in dflt THEN Auto ELSE a.dataEndRow
    /\ fs.warnings = IF "warnings" \in dflt THEN <<>> ELSE a.warnings.v

\* the structure analysis has just resolved
StructureResolved == lastOp.op = "structureResolved"

\* C22 as claimed: after a response of the structure analysis has been
\* applied, every field the response lacks holds its default (first sheet
\* name, 1, 2, 'auto', no warnings) and every field it supplies holds the
\* supplied value.
C22_SuppliedStoredAsSupplied ==
    StructureResolved =>
       StoredPer(fileStructure, lastOp.analysis, lastOp.workbook,
                 {f \in StructureFields : lastOp.analysis[f] = Undefined})

\* C22 amended: after a response of the structure analysis has been
\* applied, every field the response lacks or supplies as a value that
\* JavaScript takes as false (0, the empty string) holds its default, and
\* every other supplied field holds the supplied value.
C22_StructureDefaults ==
    StructureResolved =>
       StoredPer(fileStructure, lastOp.analysis, lastOp.workbook,
                 {f \in StructureFields :
                     \/ lastOp.analysis[f] = Undefined
                     \/ lastOp.analysis[f] = RowNum(0)
                     \/ lastOp.analysis[f] = Str("")})

\* a response that names the second sheet and the end row, gives 0 as the
\* header row and lacks the other fields
C22_Witness ==
    /\ StructureResolved
    /\ lastOp.workbook = TwoSheetBook
    /\ lastOp.analysis.sheetName = Str(SheetName)
    /\ lastOp.analysis.headerRow = RowNum(0)
    /\ lastOp.analysis.dataStartRow = Undefined
    /\ lastOp.analysis.dataEndRow = RowNum(2)
    /\ fileStructure.sheetName = SheetName
    /\ fileStructure.headerRow = 1
    /\ fileStructure.dataStartRow = 2
    /\ fileStructure.dataEndRow = RowNum(2)

\* the default descriptor of a workbook
DefaultStructureOf(workbook) ==
    [DefaultStructure EXCEPT !.sheetName = workbook.SheetNames[1]]

\* the structure analysis has just failed: the call was rejected, or its
\* text did not parse and parseJson made {} of it
StructureFailed ==
    \/ lastOp.op = "structureRejected"
    \/ StructureResolved /\ lastOp.analysis = EmptyResponse

\* C23: AIServiceFailure for structure.  Once a structure analysis that
\* errors or returns unparsable content has completed, the descriptor in
\* state is the default descriptor of the workbook (first sheet, header
\* row 1, data from row 2, end 'auto', no warnings).
C23_StructureFailureDefaults ==
    StructureFailed => fileStructure = DefaultStructureOf(lastOp.workbook)

(***************************************************************************)
(* Properties of the architecture-split call, under SpecWizard.            *)
(***************************************************************************)
\* what analyzeArchitectureSplit returns when the text of the response does
\* not parse: parseJson makes {} of it (geminiService.ts:129-159)
UnparsablePlan == [elements |-> <<>>, relationships |-> <<>>, explanation |-> Undefined]

\* the split has just failed: the call was rejected, or its text did not parse
SplitFailed ==
    \/ lastOp.op = "splitRejected"
    \/ lastOp.op = "splitResolved" /\ lastOp.plan = UnparsablePlan

\* C24: AIServiceFailure for the split.  Once a split call that errors or
\* returns unparsable content has completed, the architecture model in
\* state has no elements and no relationships, whatever it held before.
C24_SplitFailureEmptyModel ==
    SplitFailed => archModel.elements = <<>> /\ archModel.relationships = <<>>

(***************************************************************************)
(* The order of the entries of a mapping, under SpecEdit.                  *)
(***************************************************************************)
\* the order of the entries of m2 is that of m, the entry of old standing
\* under new
SameOrder(m, m2, old, new) ==
    KeySeq(m2) = [j \in DOMAIN m |-> IF m[j][1] = old THEN new ELSE m[j][1]]

\* C25: listing order under edits that do not reorder.  After a source
\* column of an entry has been renamed to a column the mapping did not hold,
\* or the output name of an entry has been set, the entries of the mapping
\* are listed in the order they had, the edited entry in its old position.
C25_ListingOrderStable ==
    [][/\ Handled("updateElementMappingKey") =>
            \A i \in DOMAIN archModel.elements :
               LET m == archModel.elements[i].attributeMapping
               IN (/\ archModel.elements[i].id = lastOp'.id
                   /\ ObjHas(m, lastOp'.oldKey)
                   /\ ~ObjHas(m, lastOp'.newKey)) =>
                     SameOrder(m, archModel'.elements[i].attributeMapping,
                               lastOp'.oldKey, lastOp'.newKey)
       /\ Handled("updateElementMappingValue") =>
            \A i \in DOMAIN archModel.elements :
               LET m == archModel.elements[i].attributeMapping
               IN (archModel.elements[i].id = lastOp'.id /\ ObjHas(m, lastOp'.key)) =>
                     SameOrder(m, archModel'.elements[i].attributeMapping,
                               lastOp'.key, lastOp'.key)]_vars

(***************************************************************************)
(* The identifiers of the definitions, under SpecWizard.                   *)
(***************************************************************************)
\* the ids of the entities followed by those of the relationships
IdsOf(model) ==
    [i \in DOMAIN model.elements |-> model.elements[i].id]
       \o [i \in DOMAIN model.relationships |-> model.relationships[i].id]

\* C26: identifier uniqueness.  In every model that hydration and the edits
\* produce, the ids of the entities and the relationships are pairwise
\* distinct and none of them is empty.
C26_IdsDistinct ==
    /\ NoRepeats(IdsOf(archModel))
    /\ \A i \in DOMAIN IdsOf(archModel) : IdsOf(archModel)[i] # ""

(***************************************************************************)
(* The primary-key column of the instance rows, under SpecRun.             *)
(***************************************************************************)
\* C27: primary-key value integrity.  Every row of the sheet of an entity
\* whose primary-key column is mapped is built from a table row whose value
\* in the primary-key column is the value the row holds under the
\* primary-key display header (output name followed by the marker), also
\* when another entry's output name is that display header.
C27_PrimaryKeyValue ==
    Ran =>
      \A e \in Range(archModel.elements) :
        PkMapped(e) =>
          \A q \in DOMAIN SheetRows(e.name) :
             \E k \in DOMAIN fileData.data :
                /\ SheetRows(e.name)[q] = BuiltOf(e, k)
                /\ ObjGet(SheetRows(e.name)[q], PkDisplayHeader(e)) = PkValue(e, k)

(***************************************************************************)
(* The table the split was made for, under SpecWizard.                     *)
(***************************************************************************)
\* C28: no stale table after the split call.  When the response of the
\* split is applied and the wizard moves to step 2, the committed table is
\* the one whose headers were sent to the split service.
C28_TableOfTheSplit ==
    (lastOp.op = "splitResolved" /\ step = 2) =>
       fileData # Null /\ fileData.headers = lastOp.headers

(***************************************************************************)
(* What step 1 shows once the upload has settled, under SpecUpload.        *)
(***************************************************************************)
\* no reader and no structure analysis is pending
Settled == uploads = {}

\* C29: no dead end in step 1.  Once an upload has settled, with whatever
\* outcome of the structure analysis, the wizard is not left with a
\* workbook, no running analysis and no descriptor: step 1 shows the file
\* input or the structure panel with its confirm button.
C29_NoDeadEnd ==
    (step = 1 /\ Settled) =>
       /\ ~(wb # Null /\ ~isStructureAnalyzing /\ fileStructure = Null)
       /\ UploadShown \/ StructurePanelShown

(***************************************************************************)
(* The relationship that addRelationship creates, under SpecEdit.          *)
(***************************************************************************)
\* the output names of a mapping
OutputNamesOf(m) == {m[j][2] : j \in DOMAIN m}

\* C30: the mapping of an added relationship.  The relationship that
\* addRelationship has just appended maps source columns to output names
\* among which are both reserved endpoint names; the reserved names are
\* output names of the mapping, not source columns.
C30_AddedRelationshipEndpoints ==
    lastOp.op = "addRelationship" =>
       LET r == archModel.relationships[Len(archModel.relationships)]
       IN /\ SourceEndpoint \in OutputNamesOf(r.attributeMapping)
          /\ TargetEndpoint \in OutputNamesOf(r.attributeMapping)
          /\ SourceEndpoint \notin KeysOf(r.attributeMapping)
          /\ TargetEndpoint \notin KeysOf(r.attributeMapping)

====
